---- MODULE Spec2Model ----
(***************************************************************************)
(* NotifyHub: the device / subscription registry, the delivery engine and  *)
(* the account handlers (access grants, link tokens) of the Express server *)
(* (src/README.md carries the server source from line 123 on) over the     *)
(* Postgres schema (src/unnamed/part_000).                                 *)
(*                                                                         *)
(* Every SQL statement is one atomic step (the server never opens a        *)
(* transaction: withClient only checks a pooled client out and back in),   *)
(* every await is a point where other requests may run.                    *)
(***************************************************************************)
EXTENDS Integers, Sequences, FiniteSets, TLC

VARIABLES
  push_devices,          \* table push_devices: a set of rows
  push_device_services,  \* table push_device_services: a set of rows
  users,                 \* table users: a set of rows
  user_service_access,   \* table user_service_access: a set of rows
  push_link_tokens,      \* table push_link_tokens: a set of rows
  nextId,                \* the next value gen_random_uuid() hands out
  now,                   \* the clock NOW() reads; it advances as requests arrive
  dbFaults,              \* storage failures injected so far
  req                    \* the requests being handled, one per slot

tables == <<push_devices, push_device_services, nextId>>
accounts == <<users, user_service_access, push_link_tokens>>
vars == <<push_devices, push_device_services, users, user_service_access,
          push_link_tokens, nextId, now, dbFaults, req>>

(***************************************************************************)
(* Bounds                                                                  *)
(***************************************************************************)
MaxRequests == 3          \* Spec: requests that arrive in one behaviour
MaxFanoutRequests == 4    \* SpecFanout: requests that arrive in one behaviour
MaxTopicRequests == 3     \* SpecTopics: requests that arrive in one behaviour
MaxPayloadRequests == 2   \* SpecPayload: requests that arrive in one behaviour
MaxReconcileRequests == 4 \* SpecReconcile: requests that arrive in one behaviour
MaxNormalizeRequests == 1 \* SpecNormalize: requests that arrive in one behaviour
MaxRaceRequests == 3      \* SpecRace: requests that arrive in one behaviour
MaxHandoverRequests == 3  \* SpecHandover: requests that arrive in one behaviour
MaxLinkRequests == 3      \* SpecLink: requests that arrive in one behaviour
MaxAccessRequests == 3    \* SpecAccess: requests that arrive in one behaviour
MaxTopicsLen == 3         \* SpecNormalize: the longest topics array of a request
MaxDbFaults == 1          \* statements the storage layer may fail
Slots == {1, 2}       \* requests in flight at the same time

(***************************************************************************)
(* Values                                                                  *)
(***************************************************************************)
Null == "<null>"                    \* SQL NULL, JS undefined
NullTime == 0                       \* a NULL timestamp; NOW() is at least 1
Falsy(x) == x = Null \/ x = ""      \* !x for an optional string

SeqToSet(s) == {s[i] : i \in DOMAIN s}

\* The rows of a set in every order a SELECT without ORDER BY may return them.
Orders(S) ==
  {s \in [1..Cardinality(S) -> S] : \A i, j \in 1..Cardinality(S) : s[i] = s[j] => i = j}

TOPICS == <<"trade_alerts", "fills", "risk_events", "system">>

\* The rows the schema seeds into table services; no handler writes the table.
services == {"algopilotx", "strategyfundamentals"}

\* A JSON value given as topics: an array of strings, or something else.
TopicsValue(items) == [isArray |-> TRUE, items |-> items]
NotAnArray == [isArray |-> FALSE, items |-> <<>>]

\* A user agent is the sequence of its words; '' is the empty sequence.
Lower(word) ==
  CASE word \in {"iPhone", "IPHONE", "iphone"} -> "iphone"
    [] word \in {"iPad", "ipad"} -> "ipad"
    [] word \in {"iPod", "ipod"} -> "ipod"
    [] word \in {"Android", "ANDROID", "android"} -> "android"
    [] OTHER -> word

detectPlatform(userAgent) ==
  IF \E i \in DOMAIN userAgent : Lower(userAgent[i]) \in {"iphone", "ipad", "ipod"}
    THEN "ios"
  ELSE IF \E i \in DOMAIN userAgent : Lower(userAgent[i]) = "android"
    THEN "android"
  ELSE "web"

\* The function without its filter against TOPICS.
normalizeTopics_KeepsUnknown(topics) ==
  IF ~topics.isArray
    THEN <<>>
    ELSE topics.items

normalizeTopics(topics) ==
  IF ~topics.isArray
    THEN <<>>
    ELSE SelectSeq(topics.items, LAMBDA topic : topic \in SeqToSet(TOPICS))

\* The PushSubscription JSON of a request body.
NoSubscription ==
  [present |-> FALSE, endpoint |-> Null, hasKeys |-> FALSE, p256dh |-> Null, auth |-> Null]
Subscription(endpoint, p256dh, auth) ==
  [present |-> TRUE, endpoint |-> endpoint, hasKeys |-> TRUE, p256dh |-> p256dh, auth |-> auth]
SubscriptionWithoutKeys(endpoint) ==
  [present |-> TRUE, endpoint |-> endpoint, hasKeys |-> FALSE, p256dh |-> Null, auth |-> Null]

NotMapped == [ok |-> FALSE, endpoint |-> Null, p256dh |-> Null, auth |-> Null]

mapSubscription(subscription) ==
  IF ~subscription.present \/ Falsy(subscription.endpoint) \/ ~subscription.hasKeys
    THEN NotMapped
    ELSE [ok |-> TRUE, endpoint |-> subscription.endpoint,
          p256dh |-> subscription.p256dh, auth |-> subscription.auth]

(***************************************************************************)
(* Responses                                                               *)
(***************************************************************************)
NoResponse ==
  [status |-> 0, error |-> Null, success |-> FALSE, device_id |-> 0,
   delivered |-> -1, results |-> <<>>, user |-> Null, session |-> Null,
   token |-> Null, expires_in_minutes |-> 0]
ErrorResponse(status, error) == [NoResponse EXCEPT !.status = status, !.error = error]
InternalServerError == ErrorResponse(500, "Internal server error")

(***************************************************************************)
(* Request slots                                                           *)
(***************************************************************************)
Idle ==
  [kind |-> "idle", pc |-> "done", user |-> Null, service_id |-> Null,
   subscription |-> NoSubscription, topics |-> NotAnArray, endpoint |-> Null,
   userAgent |-> <<>>, mapped |-> NotMapped, normalizedTopics |-> <<>>,
   platform |-> Null, deviceId |-> 0, resolved |-> FALSE, attempts |-> <<>>,
   email |-> Null, token |-> Null, expires_in_minutes |-> 0, userId |-> Null,
   res |-> NoResponse]

\* A slot takes a new request once every step of the one it holds has run.
SlotFree(r) ==
  /\ req[r].pc = "done"
  /\ \A i \in DOMAIN req[r].attempts : req[r].attempts[i].pc \in {"resolved", "rejected"}

FreeSlots == {r \in Slots : SlotFree(r)}
\* The slot an arriving request takes.
NextSlot == IF FreeSlots = {} THEN 0 ELSE CHOOSE r \in FreeSlots : \A q \in FreeSlots : r <= q

\* A request arrives and its handler starts in slot r.
Arrive(r, request) == req' = [req EXCEPT ![r] = request]

\* Whether the storage layer fails the statement about to run.
FaultChoices == IF dbFaults < MaxDbFaults THEN {TRUE, FALSE} ELSE {FALSE}
CountFault(fault) == dbFaults' = IF fault THEN dbFaults + 1 ELSE dbFaults

(***************************************************************************)
(* Tables                                                                  *)
(***************************************************************************)
DeviceByEndpoint(devices, endpoint) == {d \in devices : d.endpoint = endpoint}

\* The insert without its ON CONFLICT (endpoint) clause.
UpsertDevice_NoConflictClause(devices, id, user_id, m, userAgent, platform, t) ==
  devices \cup
    {[id |-> id, user_id |-> user_id, endpoint |-> m.endpoint, p256dh |-> m.p256dh,
      auth |-> m.auth, user_agent |-> userAgent, platform |-> platform,
      is_active |-> TRUE]}

\* The upsert with auth = EXCLUDED.auth left out of its SET list.
UpsertDevice_KeepsAuth(devices, id, user_id, m, userAgent, platform, t) ==
  IF DeviceByEndpoint(devices, m.endpoint) # {}
    THEN {IF d.endpoint = m.endpoint
            THEN [d EXCEPT !.user_id = user_id, !.p256dh = m.p256dh,
                           !.user_agent = userAgent, !.platform = platform,
                           !.is_active = TRUE]
            ELSE d : d \in devices}
    ELSE UpsertDevice_NoConflictClause(devices, id, user_id, m, userAgent, platform, t)

\* INSERT INTO push_devices ... ON CONFLICT (endpoint) DO UPDATE SET ...
UpsertDevice(devices, id, user_id, m, userAgent, platform, t) ==
  IF DeviceByEndpoint(devices, m.endpoint) # {}
    THEN {IF d.endpoint = m.endpoint
            THEN [d EXCEPT !.user_id = user_id, !.p256dh = m.p256dh, !.auth = m.auth,
                           !.user_agent = userAgent, !.platform = platform,
                           !.is_active = TRUE]
            ELSE d : d \in devices}
    ELSE devices \cup
           {[id |-> id, user_id |-> user_id, endpoint |-> m.endpoint,
             p256dh |-> m.p256dh, auth |-> m.auth, user_agent |-> userAgent,
             platform |-> platform, is_active |-> TRUE]}

\* INSERT INTO push_device_services ... ON CONFLICT (device_id, service_id) DO UPDATE SET ...
UpsertDeviceService(rows, device_id, service_id, topics, t) ==
  IF \E s \in rows : s.device_id = device_id /\ s.service_id = service_id
    THEN {IF s.device_id = device_id /\ s.service_id = service_id
            THEN [s EXCEPT !.topics_json = topics, !.disabled_at = NullTime]
            ELSE s : s \in rows}
    ELSE rows \cup
           {[device_id |-> device_id, service_id |-> service_id, topics_json |-> topics,
             disabled_at |-> NullTime]}

(***************************************************************************)
(* POST /api/push/subscribe                                                *)
(***************************************************************************)
\* The handler up to the first statement: validation and the derived values.
SubscribeStart(r, user, service_id, subscription, topics, userAgent) ==
  /\ r \in FreeSlots
  /\ r = NextSlot
  /\ now' = now + 1
  /\ LET mapped == mapSubscription(subscription)
         base == [Idle EXCEPT !.kind = "subscribe", !.user = user,
                              !.service_id = service_id, !.subscription = subscription,
                              !.topics = topics, !.userAgent = userAgent]
     IN Arrive(r,
          IF Falsy(service_id)
            THEN [base EXCEPT !.res = ErrorResponse(400, "service_id is required")]
          ELSE IF ~mapped.ok
            THEN [base EXCEPT !.res = ErrorResponse(400, "Invalid subscription payload")]
          ELSE [base EXCEPT !.pc = "upsert_device", !.mapped = mapped,
                            !.normalizedTopics = normalizeTopics(topics),
                            !.platform = detectPlatform(userAgent)])
  /\ UNCHANGED <<tables, dbFaults, accounts>>

\* The first statement; p256dh and auth are NOT NULL columns.
SubscribeUpsertDevice(r) ==
  /\ req[r].kind = "subscribe"
  /\ req[r].pc = "upsert_device"
  /\ \E fault \in FaultChoices :
       /\ CountFault(fault)
       /\ IF fault \/ req[r].mapped.p256dh = Null \/ req[r].mapped.auth = Null
            THEN /\ req' = [req EXCEPT ![r].pc = "done", ![r].res = InternalServerError]
                 /\ UNCHANGED tables
            ELSE /\ push_devices' =
                      UpsertDevice(push_devices, nextId, req[r].user, req[r].mapped,
                                   req[r].userAgent, req[r].platform, now)
                 /\ nextId' = IF Cardinality(push_devices') > Cardinality(push_devices)
                                THEN nextId + 1 ELSE nextId
                 /\ LET returned ==
                          CHOOSE d \in DeviceByEndpoint(push_devices', req[r].mapped.endpoint) : TRUE
                    IN req' = [req EXCEPT ![r].pc = "upsert_service",
                                          ![r].deviceId = returned.id]
                 /\ UNCHANGED push_device_services
  /\ UNCHANGED <<now, accounts>>

\* The second statement; service_id REFERENCES services(id).
SubscribeUpsertService(r) ==
  /\ req[r].kind = "subscribe"
  /\ req[r].pc = "upsert_service"
  /\ \E fault \in FaultChoices :
       /\ CountFault(fault)
       /\ IF fault \/ req[r].service_id \notin services
            THEN /\ req' = [req EXCEPT ![r].pc = "done", ![r].res = InternalServerError]
                 /\ UNCHANGED tables
            ELSE /\ push_device_services' =
                      UpsertDeviceService(push_device_services, req[r].deviceId,
                                          req[r].service_id, req[r].normalizedTopics, now)
                 /\ req' = [req EXCEPT ![r].pc = "done",
                                       ![r].res = [NoResponse EXCEPT !.status = 200,
                                                                     !.success = TRUE,
                                                                     !.device_id = req[r].deviceId]]
                 /\ UNCHANGED <<push_devices, nextId>>
  /\ UNCHANGED <<now, accounts>>

(***************************************************************************)
(* POST /api/push/unsubscribe                                              *)
(***************************************************************************)
UnsubscribeStart(r, user, service_id, endpoint) ==
  /\ r \in FreeSlots
  /\ r = NextSlot
  /\ now' = now + 1
  /\ LET base == [Idle EXCEPT !.kind = "unsubscribe", !.user = user,
                              !.service_id = service_id, !.endpoint = endpoint]
     IN Arrive(r,
          IF Falsy(service_id) \/ Falsy(endpoint)
            THEN [base EXCEPT !.res = ErrorResponse(400, "service_id and endpoint are required")]
            ELSE [base EXCEPT !.pc = "select_device"])
  /\ UNCHANGED <<tables, dbFaults, accounts>>

\* SELECT id FROM push_devices WHERE endpoint = $1 AND user_id = $2
UnsubscribeSelectDevice(r) ==
  /\ req[r].kind = "unsubscribe"
  /\ req[r].pc = "select_device"
  /\ \E fault \in FaultChoices :
       /\ CountFault(fault)
       /\ LET rows == {d \in push_devices :
                         d.endpoint = req[r].endpoint /\ d.user_id = req[r].user}
          IN req' = [req EXCEPT ![r] =
               IF fault
                 THEN [@ EXCEPT !.pc = "done", !.res = InternalServerError]
               ELSE IF rows = {}
                 THEN [@ EXCEPT !.pc = "done", !.res = ErrorResponse(404, "Device not found")]
               ELSE [@ EXCEPT !.pc = "disable", !.deviceId = (CHOOSE d \in rows : TRUE).id]]
  /\ UNCHANGED <<tables, now, accounts>>

\* The update without its service_id = $2 condition.
DisableDeviceService_AnyService(rows, device_id, service_id, t) ==
  {IF s.device_id = device_id THEN [s EXCEPT !.disabled_at = t] ELSE s : s \in rows}

\* UPDATE push_device_services SET disabled_at = NOW() WHERE device_id = $1 AND service_id = $2
DisableDeviceService(rows, device_id, service_id, t) ==
  {IF s.device_id = device_id /\ s.service_id = service_id
     THEN [s EXCEPT !.disabled_at = t] ELSE s : s \in rows}

UnsubscribeDisable(r) ==
  /\ req[r].kind = "unsubscribe"
  /\ req[r].pc = "disable"
  /\ \E fault \in FaultChoices :
       /\ CountFault(fault)
       /\ IF fault
            THEN /\ req' = [req EXCEPT ![r].pc = "done", ![r].res = InternalServerError]
                 /\ UNCHANGED tables
            ELSE /\ push_device_services' =
                      DisableDeviceService(push_device_services, req[r].deviceId,
                                           req[r].service_id, now)
                 /\ req' = [req EXCEPT ![r].pc = "done",
                                       ![r].res = [NoResponse EXCEPT !.status = 200,
                                                                     !.success = TRUE]]
                 /\ UNCHANGED <<push_devices, nextId>>
  /\ UNCHANGED <<now, accounts>>

(***************************************************************************)
(* Delivery: POST /api/push/test and POST /api/internal/push/send          *)
(***************************************************************************)
\* The join without its pds.disabled_at IS NULL condition.
SelectEligible_IgnoresDisabled(devices, deviceServices, user_id, service_id) ==
  {[device_id |-> pd.id, endpoint |-> pd.endpoint, p256dh |-> pd.p256dh,
    auth |-> pd.auth, topics_json |-> pds.topics_json] :
     <<pd, pds>> \in {x \in devices \X deviceServices :
                        /\ x[1].id = x[2].device_id
                        /\ x[1].user_id = user_id
                        /\ x[2].service_id = service_id
                        /\ x[1].is_active}}

\* SELECT ... FROM push_devices pd JOIN push_device_services pds ON pd.id = pds.device_id
\* WHERE pd.user_id = $1 AND pds.service_id = $2 AND pds.disabled_at IS NULL
\*   AND pd.is_active = TRUE
SelectEligible(devices, deviceServices, user_id, service_id) ==
  {[device_id |-> pd.id, endpoint |-> pd.endpoint, p256dh |-> pd.p256dh,
    auth |-> pd.auth, topics_json |-> pds.topics_json] :
     <<pd, pds>> \in {x \in devices \X deviceServices :
                        /\ x[1].id = x[2].device_id
                        /\ x[1].user_id = user_id
                        /\ x[2].service_id = service_id
                        /\ x[2].disabled_at = NullTime
                        /\ x[1].is_active}}

\* The filter without its rule for a row that names no topic.
TopicEligible_RequiresMatch(row, topicFilter) ==
  IF Len(topicFilter) = 0
    THEN TRUE
    ELSE \E i \in DOMAIN row.topics_json : row.topics_json[i] \in SeqToSet(topicFilter)

\* The filter of the internal send over one row.
TopicEligible(row, topicFilter) ==
  IF Len(topicFilter) = 0
    THEN TRUE
  ELSE IF Len(row.topics_json) = 0
    THEN TRUE
  ELSE \E i \in DOMAIN row.topics_json : row.topics_json[i] \in SeqToSet(topicFilter)

\* The test send without its endpoint filter.
EndpointEligible_KeepsAll(row, endpoint) == TRUE

\* The filter of the test send over one row.
EndpointEligible(row, endpoint) == IF Falsy(endpoint) THEN TRUE ELSE row.endpoint = endpoint

\* sendPush up to its first await: webPush.sendNotification is under way.
Attempt(row) ==
  [device_id |-> row.device_id, endpoint |-> row.endpoint, p256dh |-> row.p256dh,
   auth |-> row.auth, pc |-> "sending", statusCode |-> 0, success |-> FALSE,
   error |-> Null]

Settled(attempt) == attempt.pc \in {"resolved", "rejected"}

\* The outcomes without the error message of a failed attempt.
Results_WithoutError(attempts) ==
  [i \in DOMAIN attempts |-> [success |-> attempts[i].success, error |-> Null]]

\* The outcomes in the reverse of the order of the attempts.
Results_Reversed(attempts) ==
  [i \in DOMAIN attempts |->
     [success |-> attempts[Len(attempts) + 1 - i].success,
      error |-> attempts[Len(attempts) + 1 - i].error]]

Results(attempts) ==
  [i \in DOMAIN attempts |-> [success |-> attempts[i].success, error |-> attempts[i].error]]

\* What res.json sends once Promise.all has resolved.
DeliveryResponse(kind, attempts) ==
  [NoResponse EXCEPT !.status = 200, !.success = TRUE,
                     !.delivered = IF kind = "send" THEN Len(attempts) ELSE -1,
                     !.results = Results(attempts)]

\* Promise.all over the attempts: it rejects with the first rejection and resolves
\* once every attempt has resolved; the handler answers at that moment, once.
AfterAttempt(request, attempts) ==
  IF request.pc = "done"
    THEN [request EXCEPT !.attempts = attempts]
  ELSE IF \E i \in DOMAIN attempts : attempts[i].pc = "rejected"
    THEN [request EXCEPT !.attempts = attempts, !.pc = "done", !.res = InternalServerError]
  ELSE IF \A i \in DOMAIN attempts : attempts[i].pc = "resolved"
    THEN [request EXCEPT !.attempts = attempts, !.pc = "done",
                         !.res = DeliveryResponse(request.kind, attempts)]
  ELSE [request EXCEPT !.attempts = attempts]

TestStart(r, user, service_id, endpoint) ==
  /\ r \in FreeSlots
  /\ r = NextSlot
  /\ now' = now + 1
  /\ LET base == [Idle EXCEPT !.kind = "test", !.user = user,
                              !.service_id = service_id, !.endpoint = endpoint]
     IN Arrive(r,
          IF Falsy(service_id)
            THEN [base EXCEPT !.res = ErrorResponse(400, "service_id is required")]
            ELSE [base EXCEPT !.pc = "select"])
  /\ UNCHANGED <<tables, dbFaults, accounts>>

TestSelect(r) ==
  /\ req[r].kind = "test"
  /\ req[r].pc = "select"
  /\ \E fault \in FaultChoices :
       /\ CountFault(fault)
       /\ IF fault
            THEN req' = [req EXCEPT ![r].pc = "done", ![r].res = InternalServerError]
            ELSE \E rows \in Orders(SelectEligible(push_devices, push_device_services,
                                                   req[r].user, req[r].service_id)) :
                   LET filtered == SelectSeq(rows, LAMBDA row :
                                               EndpointEligible(row, req[r].endpoint))
                   IN req' = [req EXCEPT ![r] =
                        IF Len(filtered) = 0
                          THEN [@ EXCEPT !.pc = "done", !.resolved = TRUE,
                                         !.res = ErrorResponse(404, "No active subscriptions found")]
                          ELSE [@ EXCEPT !.pc = "fanout", !.resolved = TRUE,
                                         !.attempts = [i \in DOMAIN filtered |->
                                                         Attempt(filtered[i])]]]
  /\ UNCHANGED <<tables, now, accounts>>

SendStart(r, user_id, service_id, title, body, topics) ==
  /\ r \in FreeSlots
  /\ r = NextSlot
  /\ now' = now + 1
  /\ LET base == [Idle EXCEPT !.kind = "send", !.user = user_id,
                              !.service_id = service_id, !.topics = topics]
     IN Arrive(r,
          IF Falsy(service_id) \/ Falsy(user_id) \/ Falsy(title) \/ Falsy(body)
            THEN [base EXCEPT !.res = ErrorResponse(400, "service_id, user_id, title, body are required")]
            ELSE [base EXCEPT !.pc = "select"])
  /\ UNCHANGED <<tables, dbFaults, accounts>>

SendSelect(r) ==
  /\ req[r].kind = "send"
  /\ req[r].pc = "select"
  /\ \E fault \in FaultChoices :
       /\ CountFault(fault)
       /\ IF fault
            THEN req' = [req EXCEPT ![r].pc = "done", ![r].res = InternalServerError]
            ELSE \E rows \in Orders(SelectEligible(push_devices, push_device_services,
                                                   req[r].user, req[r].service_id)) :
                   LET topicFilter == normalizeTopics(req[r].topics)
                       eligible == SelectSeq(rows, LAMBDA row :
                                               TopicEligible(row, topicFilter))
                   IN req' = [req EXCEPT ![r] =
                        AfterAttempt([@ EXCEPT !.pc = "fanout", !.resolved = TRUE],
                                     [i \in DOMAIN eligible |-> Attempt(eligible[i])])]
  /\ UNCHANGED <<tables, now, accounts>>

\* The test widened to every status code of a failed push.
EndpointGone_AnyFailure(statusCode) == statusCode # 201

\* The status codes for which sendPush retires the device.
EndpointGone(statusCode) == statusCode = 404 \/ statusCode = 410

\* webPush.sendNotification settles: it resolves (201) or rejects with a status code.
PushSettles(r, i, statusCode) ==
  /\ req[r].kind \in {"test", "send"}
  /\ i \in DOMAIN req[r].attempts
  /\ req[r].attempts[i].pc = "sending"
  /\ LET attempt ==
           IF statusCode = 201
             THEN [req[r].attempts[i] EXCEPT !.pc = "resolved", !.statusCode = statusCode,
                                             !.success = TRUE]
           ELSE IF EndpointGone(statusCode)
             THEN [req[r].attempts[i] EXCEPT !.pc = "mark_dead", !.statusCode = statusCode]
           ELSE [req[r].attempts[i] EXCEPT !.pc = "resolved", !.statusCode = statusCode,
                                           !.error = "Received unexpected response code"]
     IN req' = [req EXCEPT ![r] = AfterAttempt(@, [req[r].attempts EXCEPT ![i] = attempt])]
  /\ UNCHANGED <<tables, now, dbFaults, accounts>>

\* The update writing is_active = NOT is_active.
DeactivateDevice_Toggle(devices, id) ==
  {IF d.id = id THEN [d EXCEPT !.is_active = ~d.is_active] ELSE d : d \in devices}

\* UPDATE push_devices SET is_active = false WHERE id = $1
DeactivateDevice(devices, id) ==
  {IF d.id = id THEN [d EXCEPT !.is_active = FALSE] ELSE d : d \in devices}

\* The update narrowed to one service of the device.
DisableDevice_OneService(rows, device_id, t) ==
  {IF s.device_id = device_id /\ s.service_id = "algopilotx"
     THEN [s EXCEPT !.disabled_at = t] ELSE s : s \in rows}

\* UPDATE push_device_services SET disabled_at = NOW() WHERE device_id = $1
DisableDevice(rows, device_id, t) ==
  {IF s.device_id = device_id THEN [s EXCEPT !.disabled_at = t] ELSE s : s \in rows}

ReconcileMarkDead(r, i) ==
  /\ req[r].kind \in {"test", "send"}
  /\ i \in DOMAIN req[r].attempts
  /\ req[r].attempts[i].pc = "mark_dead"
  /\ \E fault \in FaultChoices :
       /\ CountFault(fault)
       /\ IF fault
            THEN /\ req' = [req EXCEPT ![r] =
                      AfterAttempt(@, [req[r].attempts EXCEPT ![i].pc = "rejected"])]
                 /\ UNCHANGED tables
            ELSE /\ push_devices' = DeactivateDevice(push_devices, req[r].attempts[i].device_id)
                 /\ req' = [req EXCEPT ![r].attempts[i].pc = "disable_all"]
                 /\ UNCHANGED <<push_device_services, nextId>>
  /\ UNCHANGED <<now, accounts>>

ReconcileDisableAll(r, i) ==
  /\ req[r].kind \in {"test", "send"}
  /\ i \in DOMAIN req[r].attempts
  /\ req[r].attempts[i].pc = "disable_all"
  /\ \E fault \in FaultChoices :
       /\ CountFault(fault)
       /\ IF fault
            THEN /\ req' = [req EXCEPT ![r] =
                      AfterAttempt(@, [req[r].attempts EXCEPT ![i].pc = "rejected"])]
                 /\ UNCHANGED tables
            ELSE /\ push_device_services' =
                      DisableDevice(push_device_services, req[r].attempts[i].device_id, now)
                 /\ req' = [req EXCEPT ![r] =
                      AfterAttempt(@, [req[r].attempts EXCEPT
                                         ![i].pc = "resolved",
                                         ![i].error = "Received unexpected response code"])]
                 /\ UNCHANGED <<push_devices, nextId>>
  /\ UNCHANGED <<now, accounts>>

(***************************************************************************)
(* Accounts: upsertUserByEmail, POST /api/dev/grant-access,                *)
(* POST /api/dev/create-link-token and POST /api/link/exchange             *)
(***************************************************************************)
\* String.prototype.toLowerCase over the e-mail addresses requests carry.
toLowerCase(email) ==
  CASE email = "U1@Example.com" -> "u1@example.com"
    [] email = "U2@EXAMPLE.COM" -> "u2@example.com"
    [] OTHER -> email

\* The ids gen_random_uuid() gives to users, in the order the rows are inserted.
UserIds == <<"u1", "u2", "u3", "u4">>

\* The values crypto.randomBytes(24).toString('hex') returns, in the order of the
\* calls: no value is returned twice.
TokenValues == <<"t1", "t2", "t3", "t4", "t5">>

UserByEmail(rows, email) == {u \in rows : u.email = email}
UserById(rows, id) == {u \in rows : u.id = id}

\* INSERT INTO users (email) VALUES ($1)
\* ON CONFLICT (email) DO UPDATE SET email = EXCLUDED.email
upsertUserByEmail(rows, email) ==
  IF UserByEmail(rows, email) # {}
    THEN rows
    ELSE rows \cup {[id |-> UserIds[Cardinality(rows) + 1], email |-> email]}

\* INSERT INTO user_service_access (user_id, service_id, status, role)
\* VALUES ($1, $2, 'active', 'member')
\* ON CONFLICT (user_id, service_id) DO UPDATE SET status = 'active'
UpsertAccess(rows, user_id, service_id) ==
  IF \E a \in rows : a.user_id = user_id /\ a.service_id = service_id
    THEN {IF a.user_id = user_id /\ a.service_id = service_id
            THEN [a EXCEPT !.status = "active"] ELSE a : a \in rows}
    ELSE rows \cup {[user_id |-> user_id, service_id |-> service_id,
                     status |-> "active", role |-> "member"]}

\* const { email, expires_in_minutes = 30 } = req.body; the clock counts minutes.
NoMinutes == -1                     \* expires_in_minutes absent from the body
ExpiresInMinutes(expires_in_minutes) ==
  IF expires_in_minutes = NoMinutes THEN 30 ELSE expires_in_minutes

TokenByValue(rows, token) == {t \in rows : t.token = token}

\* UPDATE push_link_tokens SET used_at = NOW() WHERE token = $1
MarkUsed(rows, token, t) ==
  {IF row.token = token THEN [row EXCEPT !.used_at = t] ELSE row : row \in rows}

GrantAccessStart(r, email, service_id) ==
  /\ r \in FreeSlots
  /\ r = NextSlot
  /\ now' = now + 1
  /\ LET base == [Idle EXCEPT !.kind = "grant_access", !.email = email,
                              !.service_id = service_id]
     IN Arrive(r,
          IF Falsy(email) \/ Falsy(service_id)
            THEN [base EXCEPT !.res = ErrorResponse(400, "Email and service_id are required")]
            ELSE [base EXCEPT !.pc = "upsert_user", !.email = toLowerCase(email)])
  /\ UNCHANGED <<tables, dbFaults, accounts>>

CreateLinkTokenStart(r, email, expires_in_minutes) ==
  /\ r \in FreeSlots
  /\ r = NextSlot
  /\ now' = now + 1
  /\ LET base == [Idle EXCEPT !.kind = "create_link_token", !.email = email,
                              !.expires_in_minutes = ExpiresInMinutes(expires_in_minutes)]
     IN Arrive(r,
          IF Falsy(email)
            THEN [base EXCEPT !.res = ErrorResponse(400, "Email is required")]
            ELSE [base EXCEPT !.pc = "upsert_user", !.email = toLowerCase(email)])
  /\ UNCHANGED <<tables, dbFaults, accounts>>

\* await upsertUserByEmail(email.toLowerCase()), in either handler.
UpsertUser(r) ==
  /\ req[r].kind \in {"grant_access", "create_link_token"}
  /\ req[r].pc = "upsert_user"
  /\ \E fault \in FaultChoices :
       /\ CountFault(fault)
       /\ IF fault
            THEN /\ req' = [req EXCEPT ![r].pc = "done", ![r].res = InternalServerError]
                 /\ UNCHANGED users
            ELSE /\ users' = upsertUserByEmail(users, req[r].email)
                 /\ \E u \in UserByEmail(users', req[r].email) :
                      req' = [req EXCEPT ![r].userId = u.id,
                                         ![r].pc = IF req[r].kind = "grant_access"
                                                     THEN "insert_access"
                                                     ELSE "insert_token"]
  /\ UNCHANGED <<tables, now, user_service_access, push_link_tokens>>

GrantAccessInsert(r) ==
  /\ req[r].kind = "grant_access"
  /\ req[r].pc = "insert_access"
  /\ \E fault \in FaultChoices :
       /\ CountFault(fault)
       /\ IF fault \/ req[r].service_id \notin services
            THEN /\ req' = [req EXCEPT ![r].pc = "done", ![r].res = InternalServerError]
                 /\ UNCHANGED user_service_access
            ELSE /\ user_service_access' =
                      UpsertAccess(user_service_access, req[r].userId, req[r].service_id)
                 /\ req' = [req EXCEPT ![r].pc = "done",
                              ![r].res = [NoResponse EXCEPT !.status = 200, !.success = TRUE,
                                                            !.user = req[r].userId]]
  /\ UNCHANGED <<tables, now, users, push_link_tokens>>

CreateLinkTokenInsert(r) ==
  /\ req[r].kind = "create_link_token"
  /\ req[r].pc = "insert_token"
  /\ \E fault \in FaultChoices :
       /\ CountFault(fault)
       /\ IF fault
            THEN /\ req' = [req EXCEPT ![r].pc = "done", ![r].res = InternalServerError]
                 /\ UNCHANGED push_link_tokens
            ELSE LET token == TokenValues[Cardinality(push_link_tokens) + 1]
                 IN /\ push_link_tokens' = push_link_tokens \cup
                         {[token |-> token, user_id |-> req[r].userId,
                           expires_at |-> now + req[r].expires_in_minutes,
                           used_at |-> NullTime]}
                    /\ req' = [req EXCEPT ![r].pc = "done", ![r].token = token,
                                 ![r].res = [NoResponse EXCEPT
                                               !.status = 200, !.token = token,
                                               !.expires_in_minutes = req[r].expires_in_minutes]]
  /\ UNCHANGED <<tables, now, users, user_service_access>>

ExchangeStart(r, token) ==
  /\ r \in FreeSlots
  /\ r = NextSlot
  /\ now' = now + 1
  /\ LET base == [Idle EXCEPT !.kind = "exchange", !.token = token]
     IN Arrive(r,
          IF Falsy(token)
            THEN [base EXCEPT !.res = ErrorResponse(400, "Token is required")]
            ELSE [base EXCEPT !.pc = "select_token"])
  /\ UNCHANGED <<tables, dbFaults, accounts>>

\* The checks of the handler on the row it has read, at time t: the error it
\* answers with, or Null when the exchange goes on.
ExchangeCheck(rows, t) ==
  IF rows = {}
    THEN "Invalid token"
  ELSE IF \E record \in rows : record.used_at # NullTime
    THEN "Token already used"
  ELSE IF \E record \in rows : record.expires_at < t
    THEN "Token expired"
  ELSE Null

ExchangeSelectToken(r) ==
  /\ req[r].kind = "exchange"
  /\ req[r].pc = "select_token"
  /\ \E fault \in FaultChoices :
       /\ CountFault(fault)
       /\ IF fault
            THEN req' = [req EXCEPT ![r].pc = "done", ![r].res = InternalServerError]
            ELSE LET rows == TokenByValue(push_link_tokens, req[r].token)
                     error == ExchangeCheck(rows, now)
                 IN IF error # Null
                      THEN req' = [req EXCEPT ![r].pc = "done",
                                              ![r].res = ErrorResponse(400, error)]
                      ELSE \E record \in rows :
                             req' = [req EXCEPT ![r].pc = "mark_used",
                                                ![r].userId = record.user_id]
  /\ UNCHANGED <<tables, now, accounts>>

ExchangeMarkUsed(r) ==
  /\ req[r].kind = "exchange"
  /\ req[r].pc = "mark_used"
  /\ \E fault \in FaultChoices :
       /\ CountFault(fault)
       /\ IF fault
            THEN /\ req' = [req EXCEPT ![r].pc = "done", ![r].res = InternalServerError]
                 /\ UNCHANGED push_link_tokens
            ELSE /\ push_link_tokens' = MarkUsed(push_link_tokens, req[r].token, now)
                 /\ req' = [req EXCEPT ![r].pc = "select_user"]
  /\ UNCHANGED <<tables, now, users, user_service_access>>

\* The last query of the exchange, createSessionCookie and res.json({ user }).
ExchangeSelectUser(r) ==
  /\ req[r].kind = "exchange"
  /\ req[r].pc = "select_user"
  /\ \E fault \in FaultChoices :
       /\ CountFault(fault)
       /\ IF fault
            THEN req' = [req EXCEPT ![r].pc = "done", ![r].res = InternalServerError]
            ELSE IF UserById(users, req[r].userId) = {}
              THEN req' = [req EXCEPT ![r].pc = "done",
                                      ![r].res = ErrorResponse(400, "User not found")]
              ELSE req' = [req EXCEPT ![r].pc = "done",
                             ![r].res = [NoResponse EXCEPT !.status = 200,
                                                           !.user = req[r].userId,
                                                           !.session = req[r].userId]]
  /\ UNCHANGED <<tables, now, accounts>>

(***************************************************************************)
(* The system                                                              *)
(***************************************************************************)
Users == {"u1", "u2"}
Endpoints == {"e1", "e2", "e3"}
StatusCodes == {201, 404, 410, 500}

\* The browser a user calls from: its push keys and its user agent.
P256dhOf(user) == IF user = "u1" THEN "p1" ELSE "p2"
AuthOf(user) == IF user = "u1" THEN "a1" ELSE "a2"
EmailOf(user) == IF user = "u1" THEN "u1@example.com" ELSE "u2@example.com"
UserAgentOf(user) == IF user = "u1" THEN <<"Mozilla", "iPhone">> ELSE <<"Mozilla", "Android">>
BrowserSubscription(user, endpoint) == Subscription(endpoint, P256dhOf(user), AuthOf(user))

Init ==
  /\ push_devices = {}
  /\ push_device_services = {}
  /\ users = {[id |-> user, email |-> EmailOf(user)] : user \in Users}
  /\ user_service_access = {}
  /\ push_link_tokens = {}
  /\ nextId = 1
  /\ now = 0
  /\ dbFaults = 0
  /\ req = [r \in Slots |-> Idle]

GrantAccessSteps ==
  \E r \in Slots : UpsertUser(r) \/ GrantAccessInsert(r)

LinkSteps ==
  \E r \in Slots :
    \/ UpsertUser(r)
    \/ CreateLinkTokenInsert(r)
    \/ ExchangeSelectToken(r)
    \/ ExchangeMarkUsed(r)
    \/ ExchangeSelectUser(r)

SubscribeSteps ==
  \E r \in Slots : SubscribeUpsertDevice(r) \/ SubscribeUpsertService(r)

UnsubscribeSteps ==
  \E r \in Slots : UnsubscribeSelectDevice(r) \/ UnsubscribeDisable(r)

DeliverySteps ==
  \E r \in Slots :
    \/ TestSelect(r)
    \/ SendSelect(r)
    \/ \E i \in 1..Cardinality(Endpoints) :
         \/ \E statusCode \in StatusCodes : PushSettles(r, i, statusCode)
         \/ ReconcileMarkDead(r, i)
         \/ ReconcileDisableAll(r, i)

(***************************************************************************)
(* Spec: two users share one endpoint over both services; requests of      *)
(* every kind arrive while others are in flight.                           *)
(***************************************************************************)
Subscribe ==
  /\ now < MaxRequests
  /\ \E user \in Users, service_id \in services :
       SubscribeStart(NextSlot, user, service_id, BrowserSubscription(user, "e1"),
                      TopicsValue(<<>>), UserAgentOf(user))

Unsubscribe ==
  /\ now < MaxRequests
  /\ \E user \in Users, service_id \in services :
       UnsubscribeStart(NextSlot, user, service_id, "e1")

Test ==
  /\ now < MaxRequests
  /\ \E user \in Users, service_id \in services, endpoint \in {Null, "e1", "e2"} :
       TestStart(NextSlot, user, service_id, endpoint)

Send ==
  /\ now < MaxRequests
  /\ \E user \in Users, service_id \in services :
       SendStart(NextSlot, user, service_id, "Hello", "Trade alert", NotAnArray)

Next ==
  \/ Subscribe
  \/ Unsubscribe
  \/ Test
  \/ Send
  \/ SubscribeSteps
  \/ UnsubscribeSteps
  \/ DeliverySteps

Spec == Init /\ [][Next]_vars

(***************************************************************************)
(* SpecFanout: one user registers up to three endpoints for one service    *)
(* and delivers to them; requests arrive one at a time.                    *)
(***************************************************************************)
FanoutSubscribe ==
  /\ now < MaxFanoutRequests
  /\ FreeSlots = Slots
  /\ \E endpoint \in Endpoints :
       SubscribeStart(NextSlot, "u1", "algopilotx", BrowserSubscription("u1", endpoint),
                      TopicsValue(<<>>), UserAgentOf("u1"))

FanoutSend ==
  /\ now < MaxFanoutRequests
  /\ FreeSlots = Slots
  /\ SendStart(NextSlot, "u1", "algopilotx", "Hello", "Trade alert", NotAnArray)

FanoutTest ==
  /\ now < MaxFanoutRequests
  /\ FreeSlots = Slots
  /\ \E endpoint \in {Null, "e2"} : TestStart(NextSlot, "u1", "algopilotx", endpoint)

FanoutNext ==
  \/ FanoutSubscribe
  \/ FanoutSend
  \/ FanoutTest
  \/ SubscribeSteps
  \/ DeliverySteps

SpecFanout == Init /\ [][FanoutNext]_vars

(***************************************************************************)
(* SpecTopics: one device, one service; the topics of the registration     *)
(* and of the send range over arrays of known and unknown names and over   *)
(* values that are no array.                                               *)
(***************************************************************************)
TopicNames == {"fills", "risk_events", "promo"}
TopicInputs ==
  {NotAnArray} \cup {TopicsValue(items) : items \in UNION {[1..n -> TopicNames] : n \in 0..2}}

TopicsSubscribe ==
  /\ now < MaxTopicRequests
  /\ FreeSlots = Slots
  /\ \E topics \in TopicInputs :
       SubscribeStart(NextSlot, "u1", "algopilotx", BrowserSubscription("u1", "e1"),
                      topics, UserAgentOf("u1"))

TopicsSend ==
  /\ now < MaxTopicRequests
  /\ FreeSlots = Slots
  /\ \E topics \in TopicInputs :
       SendStart(NextSlot, "u1", "algopilotx", "Hello", "Trade alert", topics)

TopicsTest ==
  /\ now < MaxTopicRequests
  /\ FreeSlots = Slots
  /\ TestStart(NextSlot, "u1", "algopilotx", Null)

TopicsNext ==
  \/ TopicsSubscribe
  \/ TopicsSend
  \/ TopicsTest
  \/ SubscribeSteps
  \/ DeliverySteps

SpecTopics == Init /\ [][TopicsNext]_vars

(***************************************************************************)
(* SpecPayload: registrations with well-formed and malformed bodies.       *)
(***************************************************************************)
PayloadSubscriptions(user) ==
  {BrowserSubscription(user, "e1"),
   NoSubscription,
   BrowserSubscription(user, Null),
   BrowserSubscription(user, ""),
   SubscriptionWithoutKeys("e1"),
   Subscription("e1", Null, AuthOf(user)),
   Subscription("e1", P256dhOf(user), Null),
   Subscription("e1", Null, Null)}

PayloadSubscribe ==
  /\ now < MaxPayloadRequests
  /\ \E user \in Users, service_id \in services \cup {"unknown", Null} :
     \E subscription \in PayloadSubscriptions(user) :
       SubscribeStart(NextSlot, user, service_id, subscription,
                      TopicsValue(<<"fills">>), UserAgentOf(user))

PayloadNext ==
  \/ PayloadSubscribe
  \/ SubscribeSteps

SpecPayload == Init /\ [][PayloadNext]_vars

(***************************************************************************)
(* SpecReconcile: one device registered for both services, one service at  *)
(* a time; deliveries for either service arrive while others are in        *)
(* flight.                                                                 *)
(***************************************************************************)
ReconcileSubscribe ==
  /\ now < MaxReconcileRequests
  /\ FreeSlots = Slots
  /\ \E service_id \in services :
       SubscribeStart(NextSlot, "u1", service_id, BrowserSubscription("u1", "e1"),
                      TopicsValue(<<>>), UserAgentOf("u1"))

ReconcileSend ==
  /\ now < MaxReconcileRequests
  /\ \E service_id \in services :
       SendStart(NextSlot, "u1", service_id, "Hello", "Trade alert", NotAnArray)

ReconcileTest ==
  /\ now < MaxReconcileRequests
  /\ \E service_id \in services : TestStart(NextSlot, "u1", service_id, Null)

ReconcileNext ==
  \/ ReconcileSubscribe
  \/ ReconcileSend
  \/ ReconcileTest
  \/ SubscribeSteps
  \/ DeliverySteps

SpecReconcile == Init /\ [][ReconcileNext]_vars

(***************************************************************************)
(* SpecNormalize: registrations whose topics range over every array of     *)
(* catalog names and one unknown name up to a length, and over a value     *)
(* that is no array.                                                       *)
(***************************************************************************)
NormalizeNames == SeqToSet(TOPICS) \cup {"promo"}
NormalizeInputs ==
  {NotAnArray} \cup
    {TopicsValue(items) : items \in UNION {[1..n -> NormalizeNames] : n \in 0..MaxTopicsLen}}

NormalizeSubscribe ==
  /\ now < MaxNormalizeRequests
  /\ FreeSlots = Slots
  /\ \E topics \in NormalizeInputs :
       SubscribeStart(NextSlot, "u1", "algopilotx", BrowserSubscription("u1", "e1"),
                      topics, UserAgentOf("u1"))

NormalizeNext ==
  \/ NormalizeSubscribe
  \/ SubscribeSteps

SpecNormalize == Init /\ [][NormalizeNext]_vars

(***************************************************************************)
(* SpecRace: one endpoint is registered, a delivery to it gets its push    *)
(* outcome, and the endpoint is registered again while that delivery is    *)
(* still reconciling; nothing arrives after the second registration.       *)
(***************************************************************************)
\* The first registration: nothing is stored yet and nothing is in flight.
RaceSubscribe ==
  /\ now < MaxRaceRequests
  /\ FreeSlots = Slots
  /\ push_devices = {}
  /\ req[2].kind = "idle"
  /\ \E service_id \in services :
       SubscribeStart(NextSlot, "u1", service_id, BrowserSubscription("u1", "e1"),
                      TopicsValue(<<>>), UserAgentOf("u1"))

RaceSend ==
  /\ now < MaxRaceRequests
  /\ FreeSlots = Slots
  /\ push_devices # {}
  /\ req[2].kind = "idle"
  /\ \E service_id \in services :
       SendStart(NextSlot, "u1", service_id, "Hello", "Trade alert", NotAnArray)

RaceTest ==
  /\ now < MaxRaceRequests
  /\ FreeSlots = Slots
  /\ push_devices # {}
  /\ req[2].kind = "idle"
  /\ \E service_id \in services : TestStart(NextSlot, "u1", service_id, Null)

\* The browser registers the endpoint again after the push service has answered the
\* delivery in slot 1 with 404 or 410 and before sendPush has finished.
RaceSubscribeAgain ==
  /\ now < MaxRaceRequests
  /\ req[1].kind \in {"test", "send"}
  /\ \E i \in DOMAIN req[1].attempts : req[1].attempts[i].pc \in {"mark_dead", "disable_all"}
  /\ req[2].kind = "idle"
  /\ SubscribeStart(2, "u1", req[1].service_id, BrowserSubscription("u1", "e1"),
                    TopicsValue(<<>>), UserAgentOf("u1"))

RaceNext ==
  \/ RaceSubscribe
  \/ RaceSend
  \/ RaceTest
  \/ RaceSubscribeAgain
  \/ SubscribeSteps
  \/ DeliverySteps

SpecRace == Init /\ [][RaceNext]_vars

(***************************************************************************)
(* SpecHandover: u1 registers the endpoint for algopilotx, u2 registers    *)
(* the same endpoint for strategyfundamentals only, and deliveries for u2  *)
(* over either service arrive while no registration is under way.          *)
(***************************************************************************)
HandoverSubscribe ==
  /\ now < MaxHandoverRequests
  /\ FreeSlots = Slots
  /\ \E registration \in {<<"u1", "algopilotx">>, <<"u2", "strategyfundamentals">>} :
       SubscribeStart(NextSlot, registration[1], registration[2],
                      BrowserSubscription(registration[1], "e1"),
                      TopicsValue(<<>>), UserAgentOf(registration[1]))

\* No registration is under way.
RegistrationsOver == \A r \in Slots : req[r].kind = "subscribe" => SlotFree(r)

HandoverSend ==
  /\ now < MaxHandoverRequests
  /\ RegistrationsOver
  /\ \E service_id \in services :
       SendStart(NextSlot, "u2", service_id, "Hello", "Trade alert", NotAnArray)

HandoverTest ==
  /\ now < MaxHandoverRequests
  /\ RegistrationsOver
  /\ \E service_id \in services : TestStart(NextSlot, "u2", service_id, Null)

HandoverNext ==
  \/ HandoverSubscribe
  \/ HandoverSend
  \/ HandoverTest
  \/ SubscribeSteps
  \/ DeliverySteps

SpecHandover == Init /\ [][HandoverNext]_vars

(***************************************************************************)
(* SpecLink: link tokens are created for a known and for a new address and *)
(* exchanged, while other requests are in flight.                          *)
(***************************************************************************)
LinkCreate ==
  /\ now < MaxLinkRequests
  /\ now < Len(TokenValues)
  /\ \E email \in {"U1@Example.com", "u3@example.com"}, expires_in_minutes \in {NoMinutes, 1} :
       CreateLinkTokenStart(NextSlot, email, expires_in_minutes)

LinkExchange ==
  /\ now < MaxLinkRequests
  /\ \E token \in {Null, "t1", "t2"} : ExchangeStart(NextSlot, token)

LinkNext ==
  \/ LinkCreate
  \/ LinkExchange
  \/ LinkSteps

SpecLink == Init /\ [][LinkNext]_vars

(***************************************************************************)
(* SpecAccess: access to a service is granted to u1, and u1 registers an   *)
(* endpoint for algopilotx and is delivered to, in any order.              *)
(***************************************************************************)
AccessGrant ==
  /\ now < MaxAccessRequests
  /\ \E email \in {Null, "U1@Example.com"}, service_id \in {"algopilotx", "acme"} :
       GrantAccessStart(NextSlot, email, service_id)

AccessSubscribe ==
  /\ now < MaxAccessRequests
  /\ SubscribeStart(NextSlot, "u1", "algopilotx", BrowserSubscription("u1", "e1"),
                    TopicsValue(<<>>), UserAgentOf("u1"))

AccessSend ==
  /\ now < MaxAccessRequests
  /\ SendStart(NextSlot, "u1", "algopilotx", "Hello", "Trade alert", NotAnArray)

AccessTest ==
  /\ now < MaxAccessRequests
  /\ TestStart(NextSlot, "u1", "algopilotx", Null)

AccessNext ==
  \/ AccessGrant
  \/ AccessSubscribe
  \/ AccessSend
  \/ AccessTest
  \/ GrantAccessSteps
  \/ SubscribeSteps
  \/ DeliverySteps

SpecAccess == Init /\ [][AccessNext]_vars

(***************************************************************************)
(* Claims                                                                  *)
(***************************************************************************)
\* Request r is a subscribe call whose first statement runs in this step.
DeviceUpserted(r) ==
  /\ req[r].kind = "subscribe"
  /\ req[r].pc = "upsert_device"
  /\ req'[r].pc = "upsert_service"

\* C1: there is at most one device row per endpoint, and a registration of an
\* endpoint that already has a row adds no row: the row keeps its id and its owner
\* becomes the registering user.
C1_OneRowPerEndpoint ==
  /\ [](\A d1, d2 \in push_devices : d1.endpoint = d2.endpoint => d1 = d2)
  /\ [][\A r \in Slots :
          (DeviceUpserted(r) /\ DeviceByEndpoint(push_devices, req[r].mapped.endpoint) # {}) =>
             /\ Cardinality(push_devices') = Cardinality(push_devices)
             /\ \A d \in DeviceByEndpoint(push_devices', req[r].mapped.endpoint) :
                  /\ d.user_id = req[r].user
                  /\ d.id \in {p.id : p \in DeviceByEndpoint(push_devices, req[r].mapped.endpoint)}
                  /\ d.id = req'[r].deviceId]_vars

\* Two registrations of one endpoint by different users have both succeeded, on the
\* same single row, which the later one owns.
C1_Witness ==
  \E r1, r2 \in Slots :
    /\ req[r1].kind = "subscribe" /\ req[r2].kind = "subscribe"
    /\ req[r1].res.status = 200 /\ req[r2].res.status = 200
    /\ req[r1].user # req[r2].user
    /\ req[r1].mapped.endpoint = req[r2].mapped.endpoint
    /\ req[r1].res.device_id = req[r2].res.device_id
    /\ \E d \in push_devices : d.id = req[r1].res.device_id /\ d.user_id = req[r2].user
    /\ Cardinality(DeviceByEndpoint(push_devices, req[r1].mapped.endpoint)) = 1

\* C2: a device row never exists without a subscription row of its own, in any
\* state: between the two statements of a subscribe call and after the second fails.
C2_NoDeviceWithoutSubscription ==
  \A d \in push_devices : \E s \in push_device_services : s.device_id = d.id

\* The eligible set of delivery request r was resolved and came out empty.
EmptyEligibleSet(r) ==
  /\ req[r].kind \in {"test", "send"}
  /\ req[r].resolved
  /\ req[r].attempts = <<>>

\* C3: a delivery whose eligible set is empty fails with NoActiveSubscriptions,
\* whichever entry point it came through.
C3_EmptyEligibleSetFails ==
  \A r \in Slots :
    EmptyEligibleSet(r) =>
      /\ req[r].res.status = 404
      /\ req[r].res.error = "No active subscriptions found"
      /\ ~req[r].res.success

\* The reconciliation write of attempt i of delivery r has failed.
ReconciliationFailed(r, i) ==
  /\ req[r].kind \in {"test", "send"}
  /\ i \in DOMAIN req[r].attempts
  /\ req[r].attempts[i].pc = "rejected"
  /\ EndpointGone(req[r].attempts[i].statusCode)

\* C4: a delivery whose reconciliation write failed still answers with its report:
\* overall success and one outcome per eligible endpoint.
C4_ReconciliationFailureKeepsReport ==
  \A r \in Slots :
    (req[r].pc = "done" /\ \E i \in DOMAIN req[r].attempts : ReconciliationFailed(r, i)) =>
      /\ req[r].res.status = 200
      /\ req[r].res.success
      /\ Len(req[r].res.results) = Len(req[r].attempts)

IsLive(device_id) == \E d \in push_devices : d.id = device_id /\ d.is_active
EnabledServices(device_id) ==
  {s.service_id : s \in {x \in push_device_services :
                           x.device_id = device_id /\ x.disabled_at = NullTime}}
ServicesOf(device_id) ==
  {s.service_id : s \in {x \in push_device_services : x.device_id = device_id}}

\* Delivery r is over: it has answered and every attempt has settled.
DeliveryCompleted(r) == req[r].kind \in {"test", "send"} /\ req[r].resolved /\ SlotFree(r)

\* C5 as stated: once a delivery is over and has answered with its report, every
\* device that answered one of its attempts with 404 or 410 is not live and has no
\* enabled subscription.
C5_GoneDeviceRetiredAfterDelivery ==
  \A r \in Slots :
    (DeliveryCompleted(r) /\ req[r].res.status = 200) =>
      \A i \in DOMAIN req[r].attempts :
        EndpointGone(req[r].attempts[i].statusCode) =>
          /\ ~IsLive(req[r].attempts[i].device_id)
          /\ EnabledServices(req[r].attempts[i].device_id) = {}

\* Attempt i of delivery r moves from one step of sendPush to another in this step.
AttemptMoves(r, i, from, to) ==
  /\ req[r].kind \in {"test", "send"}
  /\ i \in DOMAIN req[r].attempts
  /\ req[r].attempts[i].pc = from
  /\ req'[r].attempts[i].pc = to

\* Request r is a subscribe call whose second statement runs in this step.
ServiceUpserted(r) ==
  /\ req[r].kind = "subscribe"
  /\ req[r].pc = "upsert_service"
  /\ req'[r].res.status = 200

\* C5, amended: after a 404 or 410 the first reconciliation write, when it succeeds,
\* leaves the device not live, and the second, when it succeeds, leaves every
\* subscription of the device disabled, whatever its service; only a registration
\* of the device's endpoint makes the device live or a subscription enabled again.
C5_ReconciliationRetiresDevice ==
  /\ [][\A r \in Slots : \A i \in 1..Cardinality(Endpoints) :
          AttemptMoves(r, i, "mark_dead", "disable_all") =>
            /\ EndpointGone(req[r].attempts[i].statusCode)
            /\ ~IsLive(req[r].attempts[i].device_id)']_vars
  /\ [][\A r \in Slots : \A i \in 1..Cardinality(Endpoints) :
          AttemptMoves(r, i, "disable_all", "resolved") =>
            /\ EnabledServices(req[r].attempts[i].device_id)' = {}
            /\ ServicesOf(req[r].attempts[i].device_id)' = ServicesOf(req[r].attempts[i].device_id)]_vars
  /\ [][\A d \in push_devices :
          (~IsLive(d.id) /\ IsLive(d.id)') =>
            \E r \in Slots : DeviceUpserted(r) /\ req[r].mapped.endpoint = d.endpoint]_vars
  /\ [][\A d \in push_devices :
          ~(EnabledServices(d.id)' \subseteq EnabledServices(d.id)) =>
            \E r \in Slots :
              /\ ServiceUpserted(r)
              /\ req[r].deviceId = d.id
              /\ EnabledServices(d.id)' = EnabledServices(d.id) \cup {req[r].service_id}]_vars

\* A delivery for one service is over, its attempt to a device subscribed to both
\* services was answered 404 or 410, and the device is retired for both.
C5_Witness ==
  \E r \in Slots :
    /\ DeliveryCompleted(r)
    /\ req[r].res.status = 200
    /\ \E i \in DOMAIN req[r].attempts :
         /\ EndpointGone(req[r].attempts[i].statusCode)
         /\ ~IsLive(req[r].attempts[i].device_id)
         /\ ServicesOf(req[r].attempts[i].device_id) = services
         /\ EnabledServices(req[r].attempts[i].device_id) = {}

\* The devices a delivery has started an attempt to.
Targeted(request) == {request.attempts[i].device_id : i \in DOMAIN request.attempts}

\* The devices owned by the user that are live and whose subscription to the
\* service is enabled.
LiveEnabledDevices(user_id, service_id) ==
  {d.id : d \in {x \in push_devices :
                   /\ x.user_id = user_id
                   /\ x.is_active
                   /\ service_id \in EnabledServices(x.id)}}

\* Request r is a delivery whose eligible set is resolved in this step.
EligibleSetResolved(r) ==
  /\ req[r].kind \in {"test", "send"}
  /\ req[r].pc = "select"
  /\ req'[r].resolved

\* C7 as stated: the devices a delivery for (U, S) attempts are exactly the devices
\* that, when the eligible set is resolved, are owned by U, live and subscribed to S
\* with disabled_at null.
C7_TargetsExactlyLiveEnabled ==
  [][\A r \in Slots :
       EligibleSetResolved(r) =>
         Targeted(req'[r]) = LiveEnabledDevices(req[r].user, req[r].service_id)]_vars

\* The topics device_id has stored for service_id.
StoredTopics(device_id, service_id) ==
  UNION {SeqToSet(s.topics_json) : s \in {x \in push_device_services :
                                           x.device_id = device_id /\ x.service_id = service_id}}

\* The catalog topics a send names as its filter.
FilterTopics(request) ==
  IF request.topics.isArray
    THEN SeqToSet(request.topics.items) \cap SeqToSet(TOPICS)
    ELSE {}

\* The device passes the endpoint filter of a test send, the topic filter of a send.
PassesFilter(request, device_id) ==
  IF request.kind = "test"
    THEN Falsy(request.endpoint) \/
         \E d \in push_devices : d.id = device_id /\ d.endpoint = request.endpoint
    ELSE \/ FilterTopics(request) = {}
         \/ StoredTopics(device_id, request.service_id) = {}
         \/ StoredTopics(device_id, request.service_id) \cap FilterTopics(request) # {}

\* C7, amended: the devices a delivery for (U, S) attempts, one attempt each, are
\* exactly the devices that, when the eligible set is resolved, are owned by U, live
\* and subscribed to S with disabled_at null, and pass the endpoint or topic filter
\* of the request.
C7_TargetsAreLiveAndEnabled ==
  [][\A r \in Slots :
       EligibleSetResolved(r) =>
         /\ Targeted(req'[r]) =
              {id \in LiveEnabledDevices(req[r].user, req[r].service_id) :
                 PassesFilter(req[r], id)}
         /\ Len(req'[r].attempts) = Cardinality(Targeted(req'[r]))]_vars

\* A delivery has targeted a device, was answered 404 or 410, and a later delivery
\* of the same user and service, resolved while the device is retired, targets nothing.
C7_Witness ==
  \E r1, r2 \in Slots :
    /\ req[r1].kind \in {"test", "send"} /\ req[r2].kind \in {"test", "send"}
    /\ req[r1].user = req[r2].user /\ req[r1].service_id = req[r2].service_id
    /\ req[r1].attempts # <<>>
    /\ req[r1].attempts[1].pc = "resolved"
    /\ EndpointGone(req[r1].attempts[1].statusCode)
    /\ ~IsLive(req[r1].attempts[1].device_id)
    /\ req[r2].resolved
    /\ req[r2].attempts = <<>>
    /\ Falsy(req[r2].endpoint)
    /\ req[r2].res.status # 0

\* C10: an endpoint has one row, and the owner, keys, user agent and platform of
\* a row are those of one registering call.
C10_RowFromOneCall ==
  /\ \A d1, d2 \in push_devices : d1.endpoint = d2.endpoint => d1 = d2
  /\ \A d \in push_devices :
       /\ d.user_id \in Users
       /\ d.p256dh = P256dhOf(d.user_id)
       /\ d.auth = AuthOf(d.user_id)
       /\ d.user_agent = UserAgentOf(d.user_id)
       /\ d.platform = detectPlatform(UserAgentOf(d.user_id))

\* Two registrations of one endpoint by different users are in flight together,
\* both past their first statement.
C10_Witness ==
  \E r1, r2 \in Slots :
    /\ req[r1].kind = "subscribe" /\ req[r2].kind = "subscribe"
    /\ req[r1].pc = "upsert_service" /\ req[r2].pc = "upsert_service"
    /\ req[r1].user # req[r2].user
    /\ req[r1].mapped.endpoint = req[r2].mapped.endpoint
    /\ Cardinality(DeviceByEndpoint(push_devices, req[r1].mapped.endpoint)) = 1

\* C6: a delivery over three eligible devices of which one answered 404 or 410, one
\* failed otherwise and one accepted the push reports overall success, a delivered
\* count of 1 or 2 and three outcomes, and leaves exactly one device dead.
C6_PartialFailureReport ==
  \A r \in Slots :
    (/\ DeliveryCompleted(r)
     /\ Len(req[r].attempts) = 3
     /\ \A i \in 1..3 : req[r].attempts[i].pc = "resolved"
     /\ Cardinality({i \in 1..3 : EndpointGone(req[r].attempts[i].statusCode)}) = 1
     /\ Cardinality({i \in 1..3 : req[r].attempts[i].statusCode = 500}) = 1
     /\ Cardinality({i \in 1..3 : req[r].attempts[i].statusCode = 201}) = 1) =>
      /\ req[r].res.status = 200
      /\ req[r].res.success
      /\ req[r].res.delivered \in 1..2
      /\ Len(req[r].res.results) = 3
      /\ Cardinality({d \in push_devices : ~d.is_active}) = 1

\* C8: a send whose topics name catalog topics F keeps a live, enabled row exactly
\* when the row stores no topic or stores a topic of F; a send that names no catalog
\* topic keeps every such row.
C8_TopicFilter ==
  [][\A r \in Slots :
       (EligibleSetResolved(r) /\ req[r].kind = "send") =>
         \A id \in LiveEnabledDevices(req[r].user, req[r].service_id) :
           id \in Targeted(req'[r]) <=>
             \/ FilterTopics(req[r]) = {}
             \/ StoredTopics(id, req[r].service_id) = {}
             \/ StoredTopics(id, req[r].service_id) \cap FilterTopics(req[r]) # {}]_vars

\* A send for risk_events has resolved its eligible set and dropped the live,
\* enabled device that stores the topic fills alone.
C8_Witness ==
  \E r \in Slots :
    /\ req[r].kind = "send"
    /\ req[r].resolved
    /\ FilterTopics(req[r]) = {"risk_events"}
    /\ req[r].attempts = <<>>
    /\ \E id \in LiveEnabledDevices(req[r].user, req[r].service_id) :
         StoredTopics(id, req[r].service_id) = {"fills"}

\* The body lacks the endpoint, the keys, or one of the two secrets.
Malformed(subscription) ==
  \/ ~subscription.present
  \/ Falsy(subscription.endpoint)
  \/ ~subscription.hasKeys
  \/ subscription.p256dh = Null
  \/ subscription.auth = Null

\* C9: a registration whose body is malformed is answered with the invalid-payload
\* error and no step of it writes a table.
C9_MalformedPayloadRejected ==
  /\ [](\A r \in Slots :
          (/\ req[r].kind = "subscribe"
           /\ req[r].pc = "done"
           /\ ~Falsy(req[r].service_id)
           /\ Malformed(req[r].subscription)) =>
            /\ req[r].res.status = 400
            /\ req[r].res.error = "Invalid subscription payload")
  /\ [][\A r \in Slots :
          (/\ req'[r].kind = "subscribe"
           /\ Malformed(req'[r].subscription)
           /\ req'[r] # req[r]) => UNCHANGED tables]_vars

\* C11: every registration that succeeds leaves its endpoint live and its
\* subscription to the service enabled, with the normalized topics of the call as
\* the stored topics.
C11_RegistrationLeavesLiveEnabled ==
  [][\A r \in Slots :
       ServiceUpserted(r) =>
         \E d \in push_devices' :
           /\ d.endpoint = req[r].mapped.endpoint
           /\ d.is_active
           /\ \E s \in push_device_services' :
                /\ s.device_id = d.id
                /\ s.service_id = req[r].service_id
                /\ s.disabled_at = NullTime
                /\ SeqToSet(s.topics_json) = FilterTopics(req[r])]_vars

\* C12: a delivery has answered only when every one of its attempts has settled.
C12_AnswerAfterEveryAttempt ==
  \A r \in Slots :
    (req[r].kind \in {"test", "send"} /\ req[r].resolved /\ req[r].res.status # 0) =>
      \A i \in DOMAIN req[r].attempts : req[r].attempts[i].pc \in {"resolved", "rejected"}

\* Request r is an unsubscribe call that takes a step of its handler in this step.
UnsubscribeMoves(r) ==
  /\ req[r].kind = "unsubscribe"
  /\ req[r].pc \in {"select_device", "disable"}
  /\ req'[r] # req[r]

\* Request r is an unsubscribe call whose UPDATE runs and succeeds in this step.
UnsubscribeUpdated(r) ==
  /\ req[r].kind = "unsubscribe"
  /\ req[r].pc = "disable"
  /\ req'[r].res.status = 200

\* The subscription rows of device_id for service_id.
SubscriptionRows(device_id, service_id) ==
  {s \in push_device_services : s.device_id = device_id /\ s.service_id = service_id}

\* C13: a step of an unsubscribe call for service A changes nothing but the disabled
\* timestamp of the (device, A) row: the device rows and the rows of every other
\* service stay as they were, and so do the devices eligible for every other service.
C13_UnsubscribeChangesOneTimestamp ==
  [][\A r \in Slots :
       UnsubscribeMoves(r) =>
         /\ push_devices' = push_devices
         /\ nextId' = nextId
         /\ push_device_services \ SubscriptionRows(req[r].deviceId, req[r].service_id)
              \subseteq push_device_services'
         /\ Cardinality(push_device_services') = Cardinality(push_device_services)
         /\ \A t \in push_device_services' :
              \E s \in push_device_services : [t EXCEPT !.disabled_at = s.disabled_at] = s
         /\ \A u \in Users : \A B \in services \ {req[r].service_id} :
              LiveEnabledDevices(u, B)' = LiveEnabledDevices(u, B)]_vars

\* An unsubscribe call for one service has succeeded on a live device that is
\* subscribed to both services: the row of that service is disabled and the device
\* is still eligible for the other.
C13_Witness ==
  \E r \in Slots :
    /\ req[r].kind = "unsubscribe"
    /\ req[r].res.status = 200
    /\ IsLive(req[r].deviceId)
    /\ ServicesOf(req[r].deviceId) = services
    /\ EnabledServices(req[r].deviceId) = services \ {req[r].service_id}
    /\ \A B \in services \ {req[r].service_id} :
         req[r].deviceId \in LiveEnabledDevices(req[r].user, B)

\* C14: an unsubscribe call that succeeds on a subscription already disabled leaves
\* the subscription rows, the disabled timestamp included, exactly as they were.
C14_DisableTwiceIsNoOp ==
  [][\A r \in Slots :
       (/\ UnsubscribeUpdated(r)
        /\ SubscriptionRows(req[r].deviceId, req[r].service_id) # {}
        /\ \A s \in SubscriptionRows(req[r].deviceId, req[r].service_id) :
             s.disabled_at # NullTime) =>
         push_device_services' = push_device_services]_vars

\* C15: an unsubscribe call reports that it found the subscription exactly when the
\* device it looked up has a subscription row for the service.
C15_FoundIffRowExists ==
  [][\A r \in Slots :
       (UnsubscribeMoves(r) /\ req'[r].pc = "done" /\ req'[r].res.status # 500) =>
         (req'[r].res.success <=>
            /\ req[r].pc = "disable"
            /\ SubscriptionRows(req[r].deviceId, req[r].service_id) # {})]_vars

\* C16: a step of an unsubscribe call taken while the caller owns no device with the
\* endpoint writes no table and does not answer with success.
C16_ForeignEndpointUntouched ==
  [][\A r \in Slots :
       (/\ UnsubscribeMoves(r)
        /\ ~\E d \in push_devices : d.endpoint = req[r].endpoint /\ d.user_id = req[r].user) =>
         /\ UNCHANGED tables
         /\ req'[r].res.status # 200]_vars

\* C17: a device goes from live to not live only in the step in which a delivery
\* that was answered 404 or 410 for that device runs its first reconciliation write.
C17_DeadOnlyAfterEndpointGone ==
  [][\A d \in push_devices :
       (d.is_active /\ ~IsLive(d.id)') =>
         \E r \in Slots : \E i \in 1..Cardinality(Endpoints) :
           /\ AttemptMoves(r, i, "mark_dead", "disable_all")
           /\ req[r].attempts[i].device_id = d.id
           /\ req[r].attempts[i].statusCode \in {404, 410}]_vars

\* A delivery was answered 404 or 410 for a device and has marked it dead.
C17_Witness ==
  \E r \in Slots : \E i \in DOMAIN req[r].attempts :
    /\ req[r].kind \in {"test", "send"}
    /\ req[r].attempts[i].statusCode \in {404, 410}
    /\ req[r].attempts[i].pc \in {"disable_all", "resolved"}
    /\ \E d \in push_devices : d.id = req[r].attempts[i].device_id /\ ~d.is_active

\* C18: an attempt that is accepted, or rejected with a status other than 404 and
\* 410, settles without a write to the tables, succeeds exactly when it was
\* accepted and carries an error message when it was not; the report of the
\* delivery holds that outcome for the endpoint.
C18_OtherOutcomesChangeNothing ==
  /\ [][\A r \in Slots : \A i \in 1..Cardinality(Endpoints) :
          (/\ req[r].kind \in {"test", "send"}
           /\ i \in DOMAIN req[r].attempts
           /\ req[r].attempts[i].pc = "sending"
           /\ req'[r].attempts[i].pc # "sending"
           /\ req'[r].attempts[i].statusCode \notin {404, 410}) =>
            /\ UNCHANGED tables
            /\ req'[r].attempts[i].pc = "resolved"
            /\ req'[r].attempts[i].success <=> req'[r].attempts[i].statusCode = 201
            /\ req'[r].attempts[i].success <=> req'[r].attempts[i].error = Null]_vars
  /\ [](\A r \in Slots :
          (req[r].kind \in {"test", "send"} /\ req[r].res.status = 200) =>
            /\ Len(req[r].res.results) = Len(req[r].attempts)
            /\ \A i \in DOMAIN req[r].attempts :
                 /\ req[r].res.results[i].success = req[r].attempts[i].success
                 /\ req[r].res.results[i].error = req[r].attempts[i].error)

\* A delivery has answered with its report after an attempt was rejected with status
\* 500: the outcome is a failure with its message and the device is still live and
\* enabled for the service.
C18_Witness ==
  \E r \in Slots : \E i \in DOMAIN req[r].attempts :
    /\ req[r].kind \in {"test", "send"}
    /\ req[r].res.status = 200
    /\ req[r].attempts[i].statusCode = 500
    /\ ~req[r].res.results[i].success
    /\ req[r].res.results[i].error # Null
    /\ req[r].attempts[i].device_id \in LiveEnabledDevices(req[r].user, req[r].service_id)

\* Attempt i1 of delivery r1 and attempt i2 of delivery r2 are attempts of two
\* deliveries to one device that were both answered 404 or 410.
BothGone(r1, i1, r2, i2) ==
  /\ r1 # r2
  /\ req[r1].kind \in {"test", "send"} /\ req[r2].kind \in {"test", "send"}
  /\ i1 \in DOMAIN req[r1].attempts /\ i2 \in DOMAIN req[r2].attempts
  /\ req[r1].attempts[i1].device_id = req[r2].attempts[i2].device_id
  /\ req[r1].attempts[i1].statusCode \in {404, 410}
  /\ req[r2].attempts[i2].statusCode \in {404, 410}

\* C19: once two deliveries have both reconciled one device, the device is in the
\* state one reconciliation leaves: not live, every subscription disabled, all at
\* one timestamp; and a reconciliation write that finds its work done changes nothing.
C19_ReconcileTwiceAsOnce ==
  /\ [](\A r1, r2 \in Slots : \A i1, i2 \in 1..Cardinality(Endpoints) :
          (/\ BothGone(r1, i1, r2, i2)
           /\ req[r1].attempts[i1].pc = "resolved"
           /\ req[r2].attempts[i2].pc = "resolved") =>
            LET D == req[r1].attempts[i1].device_id
            IN /\ ~IsLive(D)
               /\ EnabledServices(D) = {}
               /\ \A s, t \in {x \in push_device_services : x.device_id = D} :
                    s.disabled_at = t.disabled_at)
  /\ [][\A r \in Slots : \A i \in 1..Cardinality(Endpoints) :
          (/\ AttemptMoves(r, i, "mark_dead", "disable_all")
           /\ ~IsLive(req[r].attempts[i].device_id)) =>
            push_devices' = push_devices]_vars
  /\ [][\A r \in Slots : \A i \in 1..Cardinality(Endpoints) :
          (/\ AttemptMoves(r, i, "disable_all", "resolved")
           /\ \A s \in push_device_services :
                s.device_id = req[r].attempts[i].device_id => s.disabled_at = now) =>
            push_device_services' = push_device_services]_vars

\* Two deliveries for different services were answered 404 or 410 for one device
\* subscribed to both: one has run both reconciliation writes, the other, which
\* resolved its eligible set before the first marked the device dead, has run its
\* first; the device is dead and both subscriptions are disabled.
C19_Witness ==
  \E r1, r2 \in Slots : \E i1 \in DOMAIN req[r1].attempts : \E i2 \in DOMAIN req[r2].attempts :
    /\ BothGone(r1, i1, r2, i2)
    /\ req[r1].service_id # req[r2].service_id
    /\ req[r1].attempts[i1].pc = "resolved"
    /\ req[r2].attempts[i2].pc = "disable_all"
    /\ ~IsLive(req[r1].attempts[i1].device_id)
    /\ ServicesOf(req[r1].attempts[i1].device_id) = services
    /\ EnabledServices(req[r1].attempts[i1].device_id) = {}

\* The positions of an array that hold a catalog topic.
CatalogPositions(items) == {i \in DOMAIN items : items[i] \in SeqToSet(TOPICS)}

\* C20: the normalized topics of a registration are catalog topics only, exactly
\* those of the input (the others are dropped, the call goes on), none for an input
\* that is no array or is empty, and normalizing them again returns them unchanged.
C20_NormalizeTopics ==
  \A r \in Slots :
    (req[r].kind = "subscribe" /\ req[r].mapped.ok) =>
      LET x == req[r].topics
          y == req[r].normalizedTopics
      IN /\ SeqToSet(y) \subseteq SeqToSet(TOPICS)
         /\ x.isArray => /\ SeqToSet(y) = SeqToSet(x.items) \cap SeqToSet(TOPICS)
                         /\ Len(y) = Cardinality(CatalogPositions(x.items))
         /\ (~x.isArray \/ x.items = <<>>) => y = <<>>
         /\ normalizeTopics(TopicsValue(y)) = y
         /\ req[r].res.status # 400

\* A registration naming an unknown topic and a catalog topic has succeeded and
\* stored the catalog topic alone.
C20_Witness ==
  \E r \in Slots :
    /\ req[r].kind = "subscribe"
    /\ req[r].res.status = 200
    /\ req[r].topics = TopicsValue(<<"promo", "fills">>)
    /\ req[r].normalizedTopics = <<"fills">>
    /\ \E s \in push_device_services : s.topics_json = <<"fills">>

\* The devices with the endpoint.
DevicesAt(endpoint) == {d.id : d \in {x \in push_devices : x.endpoint = endpoint}}

\* C21: a test send that names an endpoint attempts exactly the live, enabled
\* devices of the user and service whose endpoint is the one named; when there is
\* none it attempts nothing and fails with the no-active-subscriptions error.
C21_EndpointFilter ==
  [][\A r \in Slots :
       (EligibleSetResolved(r) /\ req[r].kind = "test" /\ ~Falsy(req[r].endpoint)) =>
         LET matching == LiveEnabledDevices(req[r].user, req[r].service_id)
                           \cap DevicesAt(req[r].endpoint)
         IN /\ Targeted(req'[r]) = matching
            /\ Len(req'[r].attempts) = Cardinality(matching)
            /\ matching = {} =>
                 /\ req'[r].attempts = <<>>
                 /\ req'[r].pc = "done"
                 /\ req'[r].res.status = 404
                 /\ req'[r].res.error = "No active subscriptions found"
                 /\ ~req'[r].res.success]_vars

\* A test send naming one endpoint has resolved its eligible set to the device of
\* that endpoint alone while the user has another live, enabled device.
C21_Witness ==
  \E r \in Slots :
    /\ req[r].kind = "test"
    /\ req[r].resolved
    /\ ~Falsy(req[r].endpoint)
    /\ Len(req[r].attempts) = 1
    /\ req[r].attempts[1].endpoint = req[r].endpoint
    /\ Cardinality(LiveEnabledDevices(req[r].user, req[r].service_id)) > 1

\* The rows a delivery keeps from its query over the tables as they are now.
EligibleRows(request) ==
  {row \in SelectEligible(push_devices, push_device_services,
                          request.user, request.service_id) :
     IF request.kind = "send"
       THEN TopicEligible(row, normalizeTopics(request.topics))
       ELSE EndpointEligible(row, request.endpoint)}

\* Request r stays the same delivery, with its eligible set resolved, over this step.
DeliveryContinues(r) ==
  /\ req[r].kind \in {"test", "send"}
  /\ req[r].resolved
  /\ req'[r].kind = req[r].kind
  /\ req'[r].resolved

\* Delivery r sends its report in this step.
ReportSent(r) ==
  /\ req[r].kind \in {"test", "send"}
  /\ req[r].pc # "done"
  /\ req'[r].pc = "done"
  /\ req'[r].res.status = 200

\* C24: a delivery starts exactly one attempt per eligible row, to pairwise different
\* devices; afterwards the attempts stay the same in number, order and target, an
\* attempt whose push has settled is never sent again and keeps its status code, and
\* the report lists one outcome per attempt, in the order of the attempts, each
\* successful exactly when its push answered 201.
C24_OneAttemptPerEligibleRow ==
  [][\A r \in Slots :
       /\ EligibleSetResolved(r) =>
            /\ Len(req'[r].attempts) = Cardinality(EligibleRows(req[r]))
            /\ Targeted(req'[r]) = {row.device_id : row \in EligibleRows(req[r])}
            /\ \A i, j \in DOMAIN req'[r].attempts :
                 req'[r].attempts[i].device_id = req'[r].attempts[j].device_id => i = j
            /\ \A i \in DOMAIN req'[r].attempts :
                 req'[r].attempts[i].pc = "sending" /\ req'[r].attempts[i].statusCode = 0
       /\ DeliveryContinues(r) =>
            /\ Len(req'[r].attempts) = Len(req[r].attempts)
            /\ \A i \in DOMAIN req[r].attempts :
                 /\ req'[r].attempts[i].device_id = req[r].attempts[i].device_id
                 /\ req'[r].attempts[i].endpoint = req[r].attempts[i].endpoint
                 /\ req[r].attempts[i].pc # "sending" =>
                      /\ req'[r].attempts[i].pc # "sending"
                      /\ req'[r].attempts[i].statusCode = req[r].attempts[i].statusCode
                      /\ req'[r].attempts[i].success = req[r].attempts[i].success
       /\ ReportSent(r) =>
            /\ Len(req'[r].res.results) = Len(req'[r].attempts)
            /\ \A i \in DOMAIN req'[r].attempts :
                 /\ req'[r].attempts[i].statusCode # 0
                 /\ req'[r].res.results[i].success = (req'[r].attempts[i].statusCode = 201)
                 /\ req'[r].res.results[i].error = req'[r].attempts[i].error]_vars

\* A delivery to three devices has reported, in order, a failure for its first
\* attempt and successes for the others, each device having been sent to once.
C24_Witness ==
  \E r \in Slots :
    /\ DeliveryCompleted(r)
    /\ req[r].res.status = 200
    /\ Len(req[r].attempts) = 3
    /\ Cardinality(Targeted(req[r])) = 3
    /\ req[r].attempts[1].statusCode = 500
    /\ req[r].attempts[2].statusCode = 201
    /\ req[r].attempts[3].statusCode = 201
    /\ ~req[r].res.results[1].success
    /\ req[r].res.results[2].success
    /\ req[r].res.results[3].success

\* C27 as stated: whenever no operation is in flight, a device that is not live has
\* no enabled subscription.
C27_DeadDeviceHasNoEnabledSubscription ==
  (\A r \in Slots : SlotFree(r)) =>
    \A d \in push_devices : ~d.is_active => EnabledServices(d.id) = {}

\* The registration in slot 2 has completed successfully.
RegisteredAgain == req[2].kind = "subscribe" /\ req[2].res.status = 200

\* C25 as stated: once the endpoint has been registered again while a delivery to it
\* was in flight, no step reconciling the earlier 404 or 410 of that delivery leaves
\* the device dead or the subscription just enabled disabled.
C25_ReconciliationSparesFreshRegistration ==
  [][\A i \in DOMAIN req[1].attempts :
       (/\ RegisteredAgain
        /\ req[1].kind \in {"test", "send"}
        /\ req[1].attempts[i].pc \in {"mark_dead", "disable_all"}
        /\ req[1].attempts[i].device_id = req[2].res.device_id) =>
          /\ \E d \in push_devices' : d.id = req[2].res.device_id /\ d.is_active
          /\ \E s \in push_device_services' :
               /\ s.device_id = req[2].res.device_id
               /\ s.service_id = req[2].service_id
               /\ s.disabled_at = NullTime]_vars

\* C26 as stated: u2 never registers the endpoint for algopilotx, so no delivery for
\* (u2, algopilotx) attempts any device.
C26_PreviousOwnerSubscriptionNotInherited ==
  \A r \in Slots :
    (req[r].kind \in {"test", "send"} /\ req[r].user = "u2"
       /\ req[r].service_id = "algopilotx") =>
      req[r].attempts = <<>>

\* C22 as stated: at most one exchange of a link token succeeds.
C22_TokenExchangedAtMostOnce ==
  \A r1, r2 \in Slots :
    (/\ r1 # r2
     /\ req[r1].kind = "exchange" /\ req[r2].kind = "exchange"
     /\ req[r1].token = req[r2].token
     /\ req[r1].res.status = 200) =>
       req[r2].res.status # 200

\* The user has an active access record for the service.
ActiveAccess(user_id, service_id) ==
  \E a \in user_service_access :
    a.user_id = user_id /\ a.service_id = service_id /\ a.status = "active"

\* C23 as stated: a registration for (U, S) succeeds, and a delivery for (U, S)
\* attempts a device, only if U has an active access record for S.
C23_DeliveryGatedByEntitlement ==
  \A r \in Slots :
    /\ (req[r].kind = "subscribe" /\ req[r].res.status = 200) =>
         ActiveAccess(req[r].user, req[r].service_id)
    /\ (req[r].kind \in {"test", "send"} /\ req[r].attempts # <<>>) =>
         ActiveAccess(req[r].user, req[r].service_id)

====
